---- MODULE Spec2Model ----
(***************************************************************************)
(* db_schema/codeCleaner.py: clean_sql(input_file, output_file) and the    *)
(* __main__ block.                                                         *)
(*                                                                         *)
(* A text (a Python str, a file's content) is a sequence of one-character  *)
(* strings.  File contents are concatenations of at most MaxFrags          *)
(* fragments: single characters, the comment marker and the seven ignore   *)
(* keywords.                                                               *)
(***************************************************************************)
EXTENDS Integers, Sequences, FiniteSets, TLC

VARIABLES fs, pc, ret, input_file, output_file, lines, idx, cleaned_lines, stdout

vars == <<fs, pc, ret, input_file, output_file, lines, idx, cleaned_lines, stdout>>

(***************************************************************************)
(* Bounds of the input domain.                                             *)
(***************************************************************************)
MaxFrags == 3

MaxMainFrags == 2

(***************************************************************************)
(* Characters and literals of the source.                                  *)
(***************************************************************************)
NL == "\n"

CR == "\r"

\* str.strip() / str.rstrip() without argument remove whitespace; these are
\* the whitespace characters of the modelled alphabet.
Whitespace == {" ", "\t", NL, CR}

\* the literal "--" of lines 24, 32 and 33
dashes == <<"-", "-">>

ignore_keywords ==
  << <<"O","W","N","E","R"," ","T","O">>,
     <<"A","C","L">>,
     <<"G","R","A","N","T"," ","A","L","L">>,
     <<"R","E","V","O","K","E"," ","A","L","L">>,
     <<"S","E","T"," ","d","e","f","a","u","l","t","_","t","a","b","l","e","_",
       "a","c","c","e","s","s","_","m","e","t","h","o","d">>,
     <<"S","E","L","E","C","T"," ","p","g","_","c","a","t","a","l","o","g",".",
       "s","e","t","_","c","o","n","f","i","g","(","'","s","e","a","r","c","h",
       "_","p","a","t","h","'">>,
     <<"\\","r","e","s","t","r","i","c","t">> >>

target_data == "viora_pluse_v1_data.sql"

target_schema == "viora_pluse_v1_schema.sql"

data_cleaned == "viora_pluse_v1_data_cleaned.sql"

schema_cleaned == "viora_pluse_v1_schema_cleaned.sql"

(***************************************************************************)
(* Python string operations used by clean_sql.                             *)
(***************************************************************************)
RECURSIVE lstrip(_)
lstrip(s) ==
  IF s = <<>> THEN s
  ELSE IF Head(s) \in Whitespace THEN lstrip(Tail(s)) ELSE s

\* rstrip(" "): only spaces are removed
RECURSIVE rstrip_spaces(_)
rstrip_spaces(s) ==
  IF s = <<>> THEN s
  ELSE IF s[Len(s)] = " " THEN rstrip_spaces(SubSeq(s, 1, Len(s) - 1)) ELSE s

RECURSIVE rstrip(_)
rstrip(s) ==
  IF s = <<>> THEN s
  ELSE IF s[Len(s)] \in Whitespace THEN rstrip(SubSeq(s, 1, Len(s) - 1)) ELSE s

strip(s) == rstrip(lstrip(s))

startswith(s, prefix) ==
  /\ Len(s) >= Len(prefix)
  /\ SubSeq(s, 1, Len(prefix)) = prefix

\* the operator `sub in s` on str
contains(s, sub) ==
  \E i \in 1..(Len(s) - Len(sub) + 1) : SubSeq(s, i, i + Len(sub) - 1) = sub

\* s.split(sep): the list of the parts of s between the occurrences of sep,
\* scanned left to right without overlap
RECURSIVE split(_, _)
split(s, sep) ==
  IF ~contains(s, sep) THEN <<s>>
  ELSE LET i == CHOOSE k \in 1..(Len(s) - Len(sep) + 1) :
                  /\ SubSeq(s, k, k + Len(sep) - 1) = sep
                  /\ \A j \in 1..(k - 1) : SubSeq(s, j, j + Len(sep) - 1) # sep
       IN  <<SubSeq(s, 1, i - 1)>> \o split(SubSeq(s, i + Len(sep), Len(s)), sep)

\* every element followed by sep, the last one included
RECURSIVE join_terminated(_, _)
join_terminated(sep, list) ==
  IF list = <<>> THEN <<>>
  ELSE list[1] \o sep \o join_terminated(sep, Tail(list))

\* "".join(list): the separator is lost
RECURSIVE join_concat(_, _)
join_concat(sep, list) ==
  IF list = <<>> THEN <<>>
  ELSE list[1] \o join_concat(sep, Tail(list))

\* sep.join(list)
RECURSIVE join(_, _)
join(sep, list) ==
  IF list = <<>> THEN <<>>
  ELSE IF Len(list) = 1 THEN list[1]
  ELSE list[1] \o sep \o join(sep, Tail(list))

\* list.insert(0, x)
prepend(list, x) == <<x>> \o list

\* list.append(x)
append(list, x) == Append(list, x)

(***************************************************************************)
(* Text-mode file I/O (open(..., encoding="utf-8"), newline=None).         *)
(***************************************************************************)
\* os.linesep of the platform (POSIX)
linesep == <<NL>>

\* reading: universal newlines, "\r\n" and "\r" are translated to "\n"
RECURSIVE decode_newlines(_)
decode_newlines(s) ==
  IF \A i \in 1..Len(s) : s[i] # CR THEN s
  ELSE LET i == CHOOSE k \in 1..Len(s) :
                  s[k] = CR /\ \A j \in 1..(k - 1) : s[j] # CR
           rest == IF i < Len(s) /\ s[i + 1] = NL
                   THEN SubSeq(s, i + 2, Len(s))
                   ELSE SubSeq(s, i + 1, Len(s))
       IN  SubSeq(s, 1, i - 1) \o <<NL>> \o decode_newlines(rest)

\* writing: every "\n" is translated to os.linesep
RECURSIVE encode_newlines(_)
encode_newlines(s) ==
  IF \A i \in 1..Len(s) : s[i] # NL THEN s
  ELSE LET i == CHOOSE k \in 1..Len(s) :
                  s[k] = NL /\ \A j \in 1..(k - 1) : s[j] # NL
       IN  SubSeq(s, 1, i - 1) \o linesep \o encode_newlines(SubSeq(s, i + 1, Len(s)))

\* the lines of a decoded text, each with its terminating "\n" (the last line
\* has none when the text does not end with "\n")
RECURSIVE splitlines_keepends(_)
splitlines_keepends(s) ==
  IF s = <<>> THEN <<>>
  ELSE IF \E i \in 1..Len(s) : s[i] = NL
       THEN LET i == CHOOSE k \in 1..Len(s) :
                       s[k] = NL /\ \A j \in 1..(k - 1) : s[j] # NL
            IN  <<SubSeq(s, 1, i)>> \o splitlines_keepends(SubSeq(s, i + 1, Len(s)))
       ELSE <<s>>

\* f.readlines() on a file opened for reading in text mode
readlines(content) == splitlines_keepends(decode_newlines(content))

(***************************************************************************)
(* The file system.  A path is "missing", "ok" (a regular file that can be *)
(* opened) or "denied" (it exists and open() fails on it).                 *)
(***************************************************************************)
File(mode, content) == [mode |-> mode, content |-> content]

Missing == File("missing", <<>>)

\* the test of os.path.exists left out
always_exists(path) == TRUE

\* os.path.exists(path)
exists(path) == fs[path].mode # "missing"

\* open(path, "r") that succeeds on any path
always_readable(path) == TRUE

can_open_read(path) == fs[path].mode = "ok"

can_open_write(path) == fs[path].mode # "denied"

(***************************************************************************)
(* The conditions and the transformation of the loop body.                 *)
(***************************************************************************)
\* lines 32-33 with strip() in place of rstrip()
remove_inline_strip(line) ==
  IF contains(line, dashes) THEN strip(split(line, dashes)[1]) ELSE line

\* lines 32-33: the value of `line` after the inline-comment step
remove_inline(line) ==
  IF contains(line, dashes) THEN rstrip(split(line, dashes)[1]) ELSE line

\* line 24 without `or not raw_line`
is_comment_only(raw_line) == startswith(raw_line, dashes)

\* line 24 without the startswith test
is_blank_only(raw_line) == raw_line = <<>>

\* line 24: raw_line.startswith("--") or not raw_line
is_comment_or_blank(raw_line) ==
  startswith(raw_line, dashes) \/ raw_line = <<>>

\* line 28 applied after the inline comment is removed
matches_ignore_uncommented(raw_line) ==
  \E k \in 1..Len(ignore_keywords) :
     contains(remove_inline(raw_line), ignore_keywords[k])

\* line 28: any(kw in raw_line for kw in ignore_keywords)
matches_ignore(raw_line) ==
  \E k \in 1..Len(ignore_keywords) : contains(raw_line, ignore_keywords[k])

(***************************************************************************)
(* clean_sql                                                               *)
(***************************************************************************)
\* lines 4-5: the call binds the parameters and prints the start message
Call(inp, out, return_to) ==
  /\ input_file' = inp
  /\ output_file' = out
  /\ ret' = return_to
  /\ stdout' = Append(stdout, <<"Cleaning", inp, out>>)
  /\ pc' = "open_in"
  /\ UNCHANGED <<fs, lines, idx, cleaned_lines>>

\* lines 6-19: open the input, read all its lines, start with no cleaned line
ReadInput ==
  /\ pc = "open_in"
  /\ can_open_read(input_file)
  /\ lines' = readlines(fs[input_file].content)
  /\ cleaned_lines' = <<>>
  /\ idx' = 1
  /\ pc' = "loop"
  /\ UNCHANGED <<fs, ret, input_file, output_file, stdout>>

\* line 6: open() raises, the exception leaves clean_sql
ReadInputFail ==
  /\ pc = "open_in"
  /\ ~can_open_read(input_file)
  /\ pc' = "raised"
  /\ UNCHANGED <<fs, ret, input_file, output_file, lines, idx, cleaned_lines, stdout>>

\* lines 20-25: a comment line or an empty line is skipped
SkipCommentOrBlank ==
  /\ pc = "loop"
  /\ idx <= Len(lines)
  /\ is_comment_or_blank(strip(lines[idx]))
  /\ idx' = idx + 1
  /\ UNCHANGED <<fs, pc, ret, input_file, output_file, lines, cleaned_lines, stdout>>

\* lines 27-29: a line with an ignore keyword is skipped
SkipIgnored ==
  /\ pc = "loop"
  /\ idx <= Len(lines)
  /\ ~is_comment_or_blank(strip(lines[idx]))
  /\ matches_ignore(strip(lines[idx]))
  /\ idx' = idx + 1
  /\ UNCHANGED <<fs, pc, ret, input_file, output_file, lines, cleaned_lines, stdout>>

\* lines 31-37: the inline comment is removed and the line is appended, unless
\* nothing but whitespace is left of it (line 34)
KeepLine ==
  /\ pc = "loop"
  /\ idx <= Len(lines)
  /\ ~is_comment_or_blank(strip(lines[idx]))
  /\ ~matches_ignore(strip(lines[idx]))
  /\ LET line == remove_inline(lines[idx])
     IN  cleaned_lines' =
           IF contains(lines[idx], dashes) /\ strip(line) = <<>>
           THEN cleaned_lines
           ELSE append(cleaned_lines, rstrip(line))
  /\ idx' = idx + 1
  /\ UNCHANGED <<fs, pc, ret, input_file, output_file, lines, stdout>>

\* lines 39-42: the output is opened for writing (created or truncated), the
\* joined lines are written, the end message is printed, clean_sql returns
WriteOutput ==
  /\ pc = "loop"
  /\ idx > Len(lines)
  /\ can_open_write(output_file)
  /\ fs' = [fs EXCEPT ![output_file] =
              File("ok", encode_newlines(join(<<NL>>, cleaned_lines)))]
  /\ stdout' = Append(stdout, <<"Cleaned SQL saved to", output_file>>)
  /\ pc' = ret
  /\ UNCHANGED <<ret, input_file, output_file, lines, idx, cleaned_lines>>

\* line 39: open() raises, the exception leaves clean_sql
WriteOutputFail ==
  /\ pc = "loop"
  /\ idx > Len(lines)
  /\ ~can_open_write(output_file)
  /\ pc' = "raised"
  /\ UNCHANGED <<fs, ret, input_file, output_file, lines, idx, cleaned_lines, stdout>>

CleanSql ==
  \/ ReadInput
  \/ ReadInputFail
  \/ SkipCommentOrBlank
  \/ SkipIgnored
  \/ KeepLine
  \/ WriteOutput
  \/ WriteOutputFail

(***************************************************************************)
(* Input domain: texts made of at most n fragments.                        *)
(***************************************************************************)
Chars == {<<" ">>, <<"\t">>, <<NL>>, <<CR>>, <<"-">>, <<"a">>, <<"'">>}

Fragments == Chars \cup {dashes} \cup {ignore_keywords[k] : k \in 1..Len(ignore_keywords)}

MainFragments == {<<NL>>, <<"a">>, dashes, ignore_keywords[2]}

RECURSIVE Flatten(_)
Flatten(ss) == IF ss = <<>> THEN <<>> ELSE Head(ss) \o Flatten(Tail(ss))

Texts(frags, n) == UNION {{Flatten(f) : f \in [1..k -> frags]} : k \in 0..n}

\* what an existing output file holds before the run
OldContent == <<"o", "l", "d", NL>>

(***************************************************************************)
(* Library use: clean_sql(src, dst), then clean_sql(dst, again) once the   *)
(* first call has returned.                                                *)
(***************************************************************************)
src_path == "in.sql"

dst_path == "out.sql"

again_path == "out2.sql"

Init ==
  /\ \E fin \in {File("ok", t) : t \in Texts(Fragments, MaxFrags)}
                \cup {Missing, File("denied", <<"a">>)},
        fout \in {Missing, File("ok", OldContent), File("denied", OldContent)} :
       fs = [p \in {src_path, dst_path, again_path} |->
               IF p = src_path THEN fin ELSE IF p = dst_path THEN fout ELSE Missing]
  /\ pc = "first_pass"
  /\ ret = "none"
  /\ input_file = "none"
  /\ output_file = "none"
  /\ lines = <<>>
  /\ idx = 1
  /\ cleaned_lines = <<>>
  /\ stdout = <<>>

FirstPass ==
  /\ pc = "first_pass"
  /\ Call(src_path, dst_path, "second_pass")

SecondPass ==
  /\ pc = "second_pass"
  /\ Call(dst_path, again_path, "finished")

Next ==
  \/ FirstPass
  \/ SecondPass
  \/ CleanSql

Spec == Init /\ [][Next]_vars

(***************************************************************************)
(* The __main__ block.                                                     *)
(***************************************************************************)
MainInit ==
  /\ \E fd, fsch \in {File("ok", t) : t \in Texts(MainFragments, MaxMainFrags)}
                     \cup {Missing, File("denied", <<"a">>)},
        od \in {Missing, File("denied", OldContent)} :
       fs = [p \in {target_data, target_schema, data_cleaned, schema_cleaned} |->
               IF p = target_data THEN fd
               ELSE IF p = target_schema THEN fsch
               ELSE IF p = data_cleaned THEN od ELSE Missing]
  /\ pc = "main_data"
  /\ ret = "none"
  /\ input_file = "none"
  /\ output_file = "none"
  /\ lines = <<>>
  /\ idx = 1
  /\ cleaned_lines = <<>>
  /\ stdout = <<>>

\* lines 49-50
MainCleanData ==
  /\ pc = "main_data"
  /\ exists(target_data)
  /\ Call(target_data, data_cleaned, "main_schema")

\* line 49, the file is absent
MainSkipData ==
  /\ pc = "main_data"
  /\ ~exists(target_data)
  /\ pc' = "main_schema"
  /\ UNCHANGED <<fs, ret, input_file, output_file, lines, idx, cleaned_lines, stdout>>

\* lines 52-53
MainCleanSchema ==
  /\ pc = "main_schema"
  /\ exists(target_schema)
  /\ Call(target_schema, schema_cleaned, "exit")

\* line 52, the file is absent
MainSkipSchema ==
  /\ pc = "main_schema"
  /\ ~exists(target_schema)
  /\ pc' = "exit"
  /\ UNCHANGED <<fs, ret, input_file, output_file, lines, idx, cleaned_lines, stdout>>

MainNext ==
  \/ MainCleanData
  \/ MainSkipData
  \/ MainCleanSchema
  \/ MainSkipSchema
  \/ CleanSql

MainSpec == MainInit /\ [][MainNext]_vars

(***************************************************************************)
(* Vocabulary of the properties, stated on the characters of a line and    *)
(* independently of the operators above.                                   *)
(***************************************************************************)
Blank(line) == \A i \in 1..Len(line) : line[i] \in Whitespace

FirstNonWs(line) ==
  CHOOSE i \in 1..Len(line) :
    line[i] \notin Whitespace /\ \A j \in 1..(i - 1) : line[j] \in Whitespace

LastNonWs(line) ==
  IF Blank(line) THEN 0
  ELSE CHOOSE i \in 1..Len(line) :
         line[i] \notin Whitespace /\ \A j \in (i + 1)..Len(line) : line[j] \in Whitespace

Trimmed(line) ==
  IF Blank(line) THEN <<>> ELSE SubSeq(line, FirstNonWs(line), LastNonWs(line))

OccursAt(s, sub, i) ==
  /\ i >= 1
  /\ i + Len(sub) - 1 <= Len(s)
  /\ \A j \in 1..Len(sub) : s[i + j - 1] = sub[j]

Occurs(s, sub) == \E i \in 1..Len(s) : OccursAt(s, sub, i)

\* the position of the first "--" of a line, 0 when it has none
FirstMarker(line) ==
  IF Occurs(line, dashes)
  THEN CHOOSE i \in 1..Len(line) :
         OccursAt(line, dashes, i) /\ \A j \in 1..(i - 1) : ~OccursAt(line, dashes, j)
  ELSE 0

CommentLine(line) == ~Blank(line) /\ OccursAt(line, dashes, FirstNonWs(line))

HasIgnorePattern(line) ==
  \E k \in 1..Len(ignore_keywords) : Occurs(Trimmed(line), ignore_keywords[k])

Discarded(line) == Blank(line) \/ CommentLine(line) \/ HasIgnorePattern(line)

Survives(line) == ~Discarded(line)

\* the line cut at its first "--", without its trailing whitespace
Expected(line) ==
  LET cut == IF FirstMarker(line) > 0 THEN SubSeq(line, 1, FirstMarker(line) - 1)
             ELSE line
  IN  SubSeq(cut, 1, LastNonWs(cut))

ExpectedLines(ls) ==
  LET kept == SelectSeq(ls, Survives)
  IN  [j \in 1..Len(kept) |-> Expected(kept[j])]

\* the loop is about to process lines[idx]
AtLine == pc = "loop" /\ idx <= Len(lines)

\* the loop has processed all the lines of a file that had some
LoopDone == pc \in {"loop", "second_pass", "finished"} /\ idx > Len(lines)

\* clean_sql has returned to its caller
Returned == pc \in {"second_pass", "finished", "main_schema", "exit"} /\ output_file # "none"

\* text is the lines ls with one "\n" between two consecutive lines and nothing else
Offset(ls, k) == 1 + Len(Flatten(SubSeq(ls, 1, k - 1))) + (k - 1)

NewlineSeparated(text, ls) ==
  /\ ls = <<>> => text = <<>>
  /\ ls # <<>> => Len(text) = Len(Flatten(ls)) + Len(ls) - 1
  /\ \A k \in 1..Len(ls) :
       /\ OccursAt(text, ls[k], Offset(ls, k)) \/ ls[k] = <<>>
       /\ k < Len(ls) => text[Offset(ls, k) + Len(ls[k])] = NL

(***************************************************************************)
(* Properties                                                              *)
(***************************************************************************)

\* C1: a line that is empty, all whitespace, or whose first non-whitespace
\* characters are "--" adds nothing to cleaned_lines when the loop processes it.
C1_CommentAndBlankDropped ==
  [][(AtLine /\ (Blank(lines[idx]) \/ CommentLine(lines[idx])))
       => (cleaned_lines' = cleaned_lines /\ idx' = idx + 1)]_vars

\* a comment line with leading whitespace and text after its "--" has been
\* processed and the call has returned with nothing emitted
C1_Witness ==
  /\ LoopDone /\ pc = "second_pass"
  /\ Len(lines) = 1
  /\ CommentLine(lines[1])
  /\ FirstNonWs(lines[1]) > 1
  /\ LastNonWs(lines[1]) > FirstNonWs(lines[1]) + 1
  /\ cleaned_lines = <<>>

\* C2: a line whose trimmed form contains an ignore pattern adds nothing to
\* cleaned_lines, wherever the pattern sits: the test sees the whole trimmed
\* line, the part after "--" included.
C2_IgnoredDropped ==
  [][(AtLine /\ HasIgnorePattern(lines[idx]))
       => (cleaned_lines' = cleaned_lines /\ idx' = idx + 1)]_vars

\* a line whose only ignore pattern sits after its first "--", the line not
\* being a comment line, has been processed and nothing was emitted
C2_Witness ==
  /\ LoopDone /\ pc = "second_pass"
  /\ Len(lines) = 1
  /\ ~CommentLine(lines[1])
  /\ FirstMarker(lines[1]) > 1
  /\ HasIgnorePattern(lines[1])
  /\ \A k \in 1..Len(ignore_keywords) :
       ~Occurs(SubSeq(lines[1], 1, FirstMarker(lines[1]) - 1), ignore_keywords[k])
  /\ cleaned_lines = <<>>

\* C3: when a line is kept, what is appended is the line cut at its first
\* "--" (the whole line when it has none) without trailing whitespace and
\* terminator, its leading whitespace untouched.
C3_KeptLineText ==
  [][(AtLine /\ cleaned_lines' # cleaned_lines)
       => cleaned_lines' = Append(cleaned_lines, Expected(lines[idx]))]_vars

\* a kept line with leading whitespace and an inline comment
C3_Witness ==
  /\ LoopDone /\ pc = "second_pass"
  /\ Len(lines) = 1
  /\ lines[1][1] \in Whitespace
  /\ FirstMarker(lines[1]) > 0
  /\ cleaned_lines = <<SubSeq(lines[1], 1, FirstMarker(lines[1]) - 1)>>

\* C4: at every point of the loop cleaned_lines is, in input order and one for
\* one, the expected text of the surviving lines among those processed so far:
\* nothing reordered, duplicated, merged or deduplicated.
C4_StableFilter ==
  /\ idx \in 1..(Len(lines) + 1)
  /\ cleaned_lines = ExpectedLines(SubSeq(lines, 1, idx - 1))

\* two different surviving lines have been appended in input order
C4_Witness ==
  /\ LoopDone
  /\ Len(lines) = 2
  /\ Len(cleaned_lines) = 2
  /\ cleaned_lines[1] # cleaned_lines[2]
  /\ cleaned_lines[1] = <<"a">>

\* C5: when clean_sql returns, the output file exists and holds the cleaned
\* lines with exactly one "\n" between consecutive lines, none after the last,
\* and the empty text when there is no cleaned line; nothing of its previous
\* content is left.
C5_OutputText ==
  Returned =>
    /\ fs[output_file].mode = "ok"
    /\ NewlineSeparated(fs[output_file].content, cleaned_lines)

\* two lines have been written
C5_Witness ==
  /\ pc = "second_pass"
  /\ Len(cleaned_lines) = 2
  /\ fs[dst_path].content = cleaned_lines[1] \o <<NL>> \o cleaned_lines[2]

\* C6: the second pass, run on the output of the first, writes the same text,
\* and it kept every line it read as it was.
C6_Idempotent ==
  pc = "finished" =>
    /\ fs[again_path] = fs[dst_path]
    /\ Len(cleaned_lines) = Len(lines)
    /\ \A j \in 1..Len(lines) :
         lines[j] \in {cleaned_lines[j], cleaned_lines[j] \o <<NL>>}

\* the first pass changed the text and left two lines, the second pass is done
C6_Witness ==
  /\ pc = "finished"
  /\ Len(cleaned_lines) = 2
  /\ fs[src_path].content # fs[dst_path].content
  /\ fs[again_path].content = fs[dst_path].content

\* C7: when the input cannot be opened the call raises, the file system is
\* left as it was, nothing runs after the exception, and the file system is
\* changed only once all the lines have been read and processed.
C7_InputError ==
  [][/\ (pc = "open_in" /\ fs[input_file].mode # "ok")
          => (pc' = "raised" /\ fs' = fs)
     /\ pc = "raised" => (pc' = "raised" /\ fs' = fs)
     /\ fs' # fs => (pc = "loop" /\ idx > Len(lines) /\ lines = readlines(fs[input_file].content))
    ]_vars

\* the input is missing, the call has raised and the existing output is intact
C7_Witness ==
  /\ pc = "raised"
  /\ input_file = src_path
  /\ fs[src_path].mode = "missing"
  /\ fs[dst_path] = File("ok", OldContent)

\* C8: the start messages on stdout list the invocations.  At exit they are
\* exactly the existing files among data, schema, in that order, each with its
\* _cleaned output; an exception is raised only for a file that exists; an
\* exception while cleaning the data dump leaves the schema dump unprocessed.
C8_Invoked(path, out) ==
  IF fs[path].mode # "missing"
  THEN << <<"Cleaning", path, out>>, <<"Cleaned SQL saved to", out>> >>
  ELSE <<>>

C8_DefaultInvocation ==
  /\ pc = "exit" =>
       stdout = C8_Invoked(target_data, data_cleaned)
                  \o C8_Invoked(target_schema, schema_cleaned)
  /\ pc = "raised" => fs[input_file].mode # "missing"
  /\ (pc = "raised" /\ input_file = target_data) =>
       /\ stdout = << <<"Cleaning", target_data, data_cleaned>> >>
       /\ fs[schema_cleaned].mode = "missing"
  /\ pc = "main_schema" =>
       stdout = C8_Invoked(target_data, data_cleaned)

\* the data dump is absent and the schema dump has been cleaned
C8_Witness ==
  /\ pc = "exit"
  /\ fs[target_data].mode = "missing"
  /\ fs[schema_cleaned].mode = "ok"
  /\ fs[schema_cleaned].content # <<>>

\* C9: a line is discarded exactly when it is blank, a comment line or holds
\* an ignore pattern; a line that passes the tests of lines 24 and 28 always
\* yields an output line (the discard of line 34 is never taken) and a line
\* that fails one of them yields none, so the output has one line per input
\* line passing the two tests.
C9_DiscardIff ==
  [][AtLine =>
       /\ (cleaned_lines' = cleaned_lines) <=> Discarded(lines[idx])
       /\ (~is_comment_or_blank(strip(lines[idx])) /\ ~matches_ignore(strip(lines[idx])))
            => Len(cleaned_lines') = Len(cleaned_lines) + 1
       /\ (is_comment_or_blank(strip(lines[idx])) \/ matches_ignore(strip(lines[idx])))
            => Len(cleaned_lines') = Len(cleaned_lines)
    ]_vars

\* a kept line that ends right at its "--" next to a discarded line
C9_Witness ==
  /\ LoopDone
  /\ Len(lines) = 2
  /\ Len(cleaned_lines) = 1
  /\ \E i \in 1..2 : /\ Survives(lines[i])
                     /\ FirstMarker(lines[i]) > 0
                     /\ Len(Trimmed(lines[i])) = FirstMarker(lines[i]) + 1

\* C10: every cleaned line has a non-whitespace character, ends with one,
\* holds no "--", no line break and no ignore pattern.
C10_CleanedLines ==
  \A j \in 1..Len(cleaned_lines) :
    LET l == cleaned_lines[j]
    IN  /\ l # <<>>
        /\ ~Blank(l)
        /\ l[Len(l)] \notin Whitespace
        /\ ~Occurs(l, dashes)
        /\ ~Occurs(l, <<NL>>)
        /\ \A k \in 1..Len(ignore_keywords) : ~Occurs(l, ignore_keywords[k])

\* a written line that had trailing whitespace and an inline comment
C10_Witness ==
  /\ pc = "second_pass"
  /\ Len(lines) = 1
  /\ Len(cleaned_lines) = 1
  /\ FirstMarker(lines[1]) > 2
  /\ lines[1][FirstMarker(lines[1]) - 1] \in Whitespace

====
